---- MODULE Spec2Model ----
(***************************************************************************)
(* Model of src/index.js: a poller that fetches recently updated           *)
(* opportunities from Current RMS, relays each unseen update to the        *)
(* webhook registered for "opportunity.updated", records the idempotency   *)
(* key in the deliveries table and advances the cursor at the end of the   *)
(* cycle.                                                                  *)
(*                                                                         *)
(* Strings that the code compares or tests for truthiness (timestamps,     *)
(* cursor values) are sequences of decimal digits, compared as JavaScript  *)
(* compares strings; the empty sequence is the empty/undefined value,      *)
(* which JavaScript treats as false.  The wall clock counts minutes.       *)
(***************************************************************************)
EXTENDS Integers, Sequences, FiniteSets, Bags, TLC

VARIABLES
    env,         \* process.env: whether CURRENT_SUBDOMAIN and CURRENT_API_KEY are set
    hooks,       \* table hooks: rows [event, url], event is the primary key
    cursors,     \* table cursors: rows [name, cursor], name is the primary key
    deliveries,  \* table deliveries: rows [idempotency_key, delivered_at]
    clock,       \* Date.now(), in minutes
    cyc,         \* the invocations of the cron callback, by slot
    okPosts,     \* history: bag of idempotency keys whose outbound POST completed
    dropped,     \* history: keys whose sink invocation returned for want of a URL
    lastAbort,   \* history: the cycle last aborted by a fetch error, not yet followed by a tick
    ticks,       \* history: number of timer ticks so far
    crashMarked, \* history: keys marked by a cycle that a termination cut short
                 \* before it wrote the cursor, until a later cycle has written it
    response,    \* history: the reply to the last HTTP request
    registered,  \* history: rows [event, url] of the last accepted registration
                 \* of each event
    fetched,     \* history: the records with a timestamp that some cycle has fetched
    lastFailed,  \* history: the failing record and those after it in the batch of the
                 \* last cycle that a delivery failure aborted, until a fetch succeeds
    recording    \* whether response, fetched and lastFailed are kept in this run

vars == <<env, hooks, cursors, deliveries, clock, cyc, okPosts, dropped,
          lastAbort, ticks, crashMarked, response, registered,
          fetched, lastFailed, recording>>

\* The history of the HTTP routes.
http == <<response, registered>>

\* A history kept only when the run records it.
Note(new, old) == IF recording THEN new ELSE old

(***************************************************************************)
(* Bounds of the model.                                                    *)
(***************************************************************************)
MaxCycles == 2     \* callback invocations that can be in flight together
MaxBatch == 2      \* records in one upstream response
ClockSteps == 1    \* minutes the wall clock advances
MaxTicks == 2      \* timer ticks

(***************************************************************************)
(* Program constants.                                                      *)
(***************************************************************************)
FallbackMinutes == 5
PerPage == 100
CursorName == "opportunities.updated_at"
EventName == "opportunity.updated"
ResourceType == "opportunity"
Source == "current-rms"

StartClock == FallbackMinutes
MaxClock == StartClock + ClockSteps
Slots == 1..MaxCycles

(***************************************************************************)
(* Strings.                                                                *)
(***************************************************************************)
Truthy(s) == Len(s) > 0

\* JavaScript's a > b on strings: lexicographic by code unit, a proper
\* prefix being the smaller.
RECURSIVE StrGT(_, _)
StrGT(a, b) ==
    IF Len(a) = 0 THEN FALSE
    ELSE IF Len(b) = 0 THEN TRUE
    ELSE IF Head(a) # Head(b) THEN Head(a) > Head(b)
    ELSE StrGT(Tail(a), Tail(b))

\* Date.prototype.toISOString: a fixed-width rendering, here two digits.
ISO(t) == <<(t \div 10) % 10, t % 10>>

(***************************************************************************)
(* The durable store (state.db).                                           *)
(***************************************************************************)
NoUrl == ""
NoResponse == [status |-> 0, body |-> ""]

getHook(rows, event) ==
    IF \E r \in rows : r.event = event
    THEN (CHOOSE r \in rows : r.event = event).url
    ELSE NoUrl

\* A setHook that keeps the row of an event already registered.
setHook_keepsFirst(rows, event, url) ==
    IF \E r \in rows : r.event = event
    THEN rows
    ELSE rows \cup {[event |-> event, url |-> url]}

setHook(rows, event, url) ==
    {r \in rows : r.event # event} \cup {[event |-> event, url |-> url]}

\* A getCursor that never finds the row.
getCursor_ignoresRow(rows, name, fallbackISO) == fallbackISO

getCursor(rows, name, fallbackISO) ==
    IF \E r \in rows : r.name = name /\ Truthy(r.cursor)
    THEN (CHOOSE r \in rows : r.name = name).cursor
    ELSE fallbackISO

\* A setCursor that keeps the row already written.
setCursor_keepsOld(rows, name, cursorISO) ==
    IF \E r \in rows : r.name = name
    THEN rows
    ELSE rows \cup {[name |-> name, cursor |-> cursorISO]}

setCursor(rows, name, cursorISO) ==
    {r \in rows : r.name # name} \cup {[name |-> name, cursor |-> cursorISO]}

\* An alreadyDelivered that never finds the key.
alreadyDelivered_never(rows, key) == FALSE

alreadyDelivered(rows, key) ==
    \E r \in rows : r.idempotency_key = key

\* A markDelivered that replaces the row of a key already present.
markDelivered_replaces(rows, key, iso) ==
    {r \in rows : r.idempotency_key # key}
    \cup {[idempotency_key |-> key, delivered_at |-> iso]}

\* A markDelivered whose insert is lost.
markDelivered_lost(rows, key, iso) == rows

markDelivered(rows, key, iso) ==
    IF \E r \in rows : r.idempotency_key = key
    THEN rows
    ELSE rows \cup {[idempotency_key |-> key, delivered_at |-> iso]}

(***************************************************************************)
(* Current RMS client and request.                                         *)
(***************************************************************************)
\* A currentClient that builds a client whatever the credentials.
currentClientThrows_never(e) == FALSE

\* currentClient throws unless both credentials are set.
currentClientThrows(e) == ~e.CURRENT_SUBDOMAIN \/ ~e.CURRENT_API_KEY

buildUpdatedSinceParams(updatedSinceISO) ==
    [updated_since |-> updatedSinceISO, per_page |-> PerPage]

\* The default of getCursor in pollOpportunities: five minutes ago.
FallbackISO(now) == ISO(now - FallbackMinutes)

(***************************************************************************)
(* What the upstream can answer.  A record carries its id and the three    *)
(* fields the code looks for a timestamp in; an absent field is empty.     *)
(***************************************************************************)
Opp(id, a, b, c) == [id |-> id, updated_at |-> a, updatedAt |-> b, updated |-> c]

Catalogue ==
    { Opp("1", <<0, 3>>, <<>>, <<>>),     \* updated_at
      Opp("2", <<0, 4>>, <<>>, <<>>),     \* updated_at, later
      Opp("2", <<>>, <<>>, <<>>) }        \* no timestamp at all

\* An element of a string that the loop iterates: a one-character string,
\* which has no id and no timestamp field.
CharOpp == Opp("undefined", <<>>, <<>>, <<>>)

RECURSIVE SeqsUpTo(_, _)
SeqsUpTo(S, n) ==
    IF n = 0 THEN {<<>>}
    ELSE LET shorter == SeqsUpTo(S, n - 1)
         IN shorter \cup {Append(q, x) : q \in {p \in shorter : Len(p) = n - 1}, x \in S}

Batches == SeqsUpTo(Catalogue, MaxBatch)

\* response.data: the list under "opportunities", under "data", or as the
\* body itself; a body that is not JSON and stays a string; a JSON object
\* without either key; an empty body.
Bodies ==
    [kind : {"opportunities", "data", "array"}, items : Batches]
    \cup [kind : {"text"}, items : {<<CharOpp>>}]
    \cup [kind : {"object", "empty"}, items : {<<>>}]

\* response.data?.opportunities || response.data?.data || response.data || []
\* and whether for...of can iterate it.
Opportunities(body) ==
    CASE body.kind \in {"opportunities", "data", "array"} ->
            [iterable |-> TRUE, items |-> body.items]
      [] body.kind = "text" -> [iterable |-> TRUE, items |-> body.items]
      [] body.kind = "object" -> [iterable |-> FALSE, items |-> <<>>]
      [] OTHER -> [iterable |-> TRUE, items |-> <<>>]

(***************************************************************************)
(* The body of the loop of pollOpportunities.                              *)
(***************************************************************************)
\* opp.updated_at || opp.updatedAt || opp.updated
UpdatedAt(opp) ==
    IF Truthy(opp.updated_at) THEN opp.updated_at
    ELSE IF Truthy(opp.updatedAt) THEN opp.updatedAt
    ELSE opp.updated

\* A running value that takes each timestamp, greater or not.
NewestTimestamp_last(newestTimestamp, updatedAt) ==
    IF Truthy(updatedAt) THEN updatedAt ELSE newestTimestamp

\* A running maximum that is never raised.
NewestTimestamp_stale(newestTimestamp, updatedAt) == newestTimestamp

NewestTimestamp(newestTimestamp, updatedAt) ==
    IF Truthy(updatedAt) /\ StrGT(updatedAt, newestTimestamp)
    THEN updatedAt
    ELSE newestTimestamp

OccurredAt(updatedAt, now) ==
    IF Truthy(updatedAt) THEN updatedAt ELSE ISO(now)

\* `opportunity:${opp.id}:${occurredAt}`
IdempotencyKey(opp, occurredAt) == <<ResourceType, opp.id, occurredAt>>

Payload(opp, occurredAt, idempotencyKey) ==
    [source |-> Source, event |-> EventName, occurred_at |-> occurredAt,
     idempotency_key |-> idempotencyKey, data |-> opp]

\* postToZapier up to its await: it returns at once when no URL is
\* registered for the event, and otherwise sends the POST.
\* A postToZapier without the early return.
postToZapier_always(rows, eventName) == "post"

postToZapier(rows, eventName) ==
    IF getHook(rows, eventName) = NoUrl THEN "return" ELSE "post"

(***************************************************************************)
(* One invocation of the cron callback.  pc is where it stands: "idle"     *)
(* (not running), "get" (awaiting client.get), "post" (awaiting            *)
(* axios.post for record i), "returned" / "threw" (pollOpportunities has   *)
(* settled and the callback's try/catch has yet to finish).  sink lists    *)
(* the calls of postToZapier the cycle has made, the last one pending      *)
(* while pc = "post".  startLedger, startCursor, fetch, error, retryOf and *)
(* retried are history.                                                    *)
(***************************************************************************)
IdleCycle ==
    [pc |-> "idle", since |-> <<>>, params |-> buildUpdatedSinceParams(<<>>),
     opportunities |-> <<>>, i |-> 0, newestTimestamp |-> <<>>, sink |-> <<>>,
     startLedger |-> {}, startCursor |-> {}, fetch |-> "none", error |-> "none",
     retryOf |-> {}, retried |-> {}]

Keys(rows) == {r.idempotency_key : r \in rows}

InFlight == {c \in Slots : cyc[c].pc \in {"get", "post"}}
Running == {c \in Slots : cyc[c].pc # "idle"}

\* The loop of pollOpportunities from record cy.i on, up to the next await
\* of an outbound POST or to the end of the list.  db carries the deliveries
\* table and the history of the sink.
RECURSIVE RunLoop(_, _)
RunLoop(cy, db) ==
    IF cy.i > Len(cy.opportunities)
    THEN [cy |-> [cy EXCEPT !.pc = "returned"], db |-> db]
    ELSE
      LET opp == cy.opportunities[cy.i]
          updatedAt == UpdatedAt(opp)
          newest == NewestTimestamp(cy.newestTimestamp, updatedAt)
          occurredAt == OccurredAt(updatedAt, clock)
          idempotencyKey == IdempotencyKey(opp, occurredAt)
          payload == Payload(opp, occurredAt, idempotencyKey)
          call == postToZapier(hooks, EventName)
          entry == [payload |-> payload,
                    registered |-> \E r \in hooks : r.event = EventName,
                    outbound |-> call = "post"]
      IN IF alreadyDelivered(db.deliveries, idempotencyKey)
         THEN RunLoop([cy EXCEPT !.i = @ + 1, !.newestTimestamp = newest], db)
         ELSE IF call = "post"
         THEN [cy |-> [cy EXCEPT !.pc = "post", !.newestTimestamp = newest,
                                 !.sink = Append(@, entry)],
               db |-> db]
         ELSE RunLoop([cy EXCEPT !.i = @ + 1, !.newestTimestamp = newest,
                                 !.sink = Append(@, entry)],
                      [db EXCEPT
                         !.deliveries = markDelivered(@, idempotencyKey, ISO(clock)),
                         !.dropped = @ \cup {idempotencyKey}])

\* A cycle that writes the cursor each time the loop stops, finished or not.
Continue_writesEachTime(c, cy, db) ==
    LET r == RunLoop(cy, db)
    IN /\ cyc' = [cyc EXCEPT ![c] = r.cy]
       /\ deliveries' = r.db.deliveries
       /\ dropped' = r.db.dropped
       /\ cursors' = setCursor(cursors, CursorName, r.cy.newestTimestamp)
       /\ UNCHANGED crashMarked

\* The state after the loop has run as far as it goes: the ledger and the
\* history, and the cursor written when the loop ran to its end.
Continue(c, cy, db) ==
    LET r == RunLoop(cy, db)
    IN /\ cyc' = [cyc EXCEPT ![c] = r.cy]
       /\ deliveries' = r.db.deliveries
       /\ dropped' = r.db.dropped
       /\ cursors' = IF r.cy.pc = "returned"
                     THEN setCursor(cursors, CursorName, r.cy.newestTimestamp)
                     ELSE cursors
       /\ UNCHANGED crashMarked

Db == [deliveries |-> deliveries, dropped |-> dropped]

\* state.db is created when absent and kept otherwise: the process starts
\* on an empty store, or on the store of an earlier run whose one cycle
\* found nothing and wrote its starting value as the cursor.
PriorRun == setCursor({}, CursorName, FallbackISO(StartClock))

Start(rec) ==
    /\ recording = rec
    /\ env \in [CURRENT_SUBDOMAIN : BOOLEAN, CURRENT_API_KEY : BOOLEAN]
    /\ hooks = {}
    /\ cursors \in {{}, PriorRun}
    /\ deliveries = {}
    /\ clock = StartClock
    /\ cyc = [c \in Slots |-> IdleCycle]
    /\ okPosts = EmptyBag
    /\ dropped = {}
    /\ lastAbort = {}
    /\ ticks = 0
    /\ crashMarked = {}
    /\ response = NoResponse
    /\ registered = {}
    /\ fetched = {}
    /\ lastFailed = {}

Init == Start(FALSE)

\* The timer fires: the callback calls pollOpportunities, which runs to its
\* first await (client.get) or throws in currentClient.
Fire(c) ==
    /\ cyc[c].pc = "idle"
    /\ \A d \in Slots : d < c => cyc[d].pc # "idle"
    /\ LET since == getCursor(cursors, CursorName, FallbackISO(clock))
       IN cyc' = [cyc EXCEPT ![c] =
            IF currentClientThrows(env)
            THEN [IdleCycle EXCEPT !.pc = "threw", !.error = "config"]
            ELSE [IdleCycle EXCEPT !.pc = "get", !.since = since,
                                   !.params = buildUpdatedSinceParams(since),
                                   !.startLedger = deliveries,
                                   !.startCursor = cursors,
                                   !.retryOf = lastAbort]]
    /\ lastAbort' = IF currentClientThrows(env) THEN lastAbort ELSE {}
    /\ UNCHANGED <<env, hooks, cursors, deliveries, clock, okPosts, dropped,
                   crashMarked>>
    /\ UNCHANGED http
    /\ UNCHANGED <<fetched, lastFailed, recording>>

\* A tick of the timer, counted.
Tick(c) ==
    /\ ticks < MaxTicks
    /\ ticks' = ticks + 1
    /\ Fire(c)

\* client.get rejects (transport, auth, timeout): pollOpportunities throws.
GetFail(c) ==
    /\ cyc[c].pc = "get"
    /\ cyc' = [cyc EXCEPT ![c].pc = "threw", ![c].fetch = "rejected",
                          ![c].error = "fetch"]
    /\ lastAbort' = {[since |-> cyc[c].since, row |-> cyc[c].startCursor]}
    /\ UNCHANGED <<ticks, env, hooks, cursors, deliveries, clock, okPosts, dropped,
                   crashMarked>>
    /\ UNCHANGED http
    /\ UNCHANGED <<fetched, lastFailed, recording>>

\* client.get resolves with a body: the list is taken from it and the loop
\* runs to the first outbound POST or to the end.
GetReturn(c, body) ==
    /\ cyc[c].pc = "get"
    /\ LET opportunities == Opportunities(body)
           cy == [cyc[c] EXCEPT !.fetch = IF body.kind \in {"text", "object"}
                                          THEN "malformed" ELSE "ok",
                                !.retried = lastFailed]
       IN IF ~opportunities.iterable
          THEN /\ cyc' = [cyc EXCEPT ![c] = [cy EXCEPT !.pc = "threw",
                                                       !.error = "not_iterable"]]
               /\ lastAbort' = {[since |-> cy.since, row |-> cy.startCursor]}
               /\ UNCHANGED <<cursors, deliveries, dropped, crashMarked>>
          ELSE /\ Continue(c, [cy EXCEPT !.opportunities = opportunities.items,
                                        !.i = 1, !.newestTimestamp = cy.since], Db)
               /\ UNCHANGED lastAbort
    /\ lastFailed' = Note({}, lastFailed)
    /\ fetched' = Note(fetched \cup
          {o \in {Opportunities(body).items[j] : j \in 1..Len(Opportunities(body).items)} :
              Truthy(UpdatedAt(o))}, fetched)
    /\ UNCHANGED <<ticks, env, hooks, clock, okPosts>>
    /\ UNCHANGED http
    /\ UNCHANGED recording

\* axios.post resolves: the key is marked and the loop goes on.
PostOk(c) ==
    /\ cyc[c].pc = "post"
    /\ LET cy == cyc[c]
           idempotencyKey == cy.sink[Len(cy.sink)].payload.idempotency_key
       IN /\ okPosts' = okPosts (+) SetToBag({idempotencyKey})
          /\ Continue(c, [cy EXCEPT !.i = @ + 1],
                      [Db EXCEPT !.deliveries =
                          markDelivered(@, idempotencyKey, ISO(clock))])
    /\ UNCHANGED <<ticks, env, hooks, clock, lastAbort>>
    /\ UNCHANGED http
    /\ UNCHANGED <<fetched, lastFailed, recording>>

\* A delivery failure that marks the key all the same before it throws.
PostFail_marks(c) ==
    /\ cyc[c].pc = "post"
    /\ cyc' = [cyc EXCEPT ![c].pc = "threw", ![c].error = "delivery"]
    /\ deliveries' = markDelivered(deliveries,
                         cyc[c].sink[Len(cyc[c].sink)].payload.idempotency_key,
                         ISO(clock))
    /\ lastFailed' = Note({cyc[c].opportunities[j] :
                               j \in cyc[c].i..Len(cyc[c].opportunities)}, lastFailed)
    /\ UNCHANGED <<ticks, env, hooks, cursors, clock, okPosts, dropped,
                   lastAbort, crashMarked>>
    /\ UNCHANGED http
    /\ UNCHANGED <<fetched, recording>>

\* A delivery failure that is swallowed: the loop goes on to the next record.
PostFail_swallowed(c) ==
    /\ cyc[c].pc = "post"
    /\ Continue(c, [cyc[c] EXCEPT !.i = @ + 1], Db)
    /\ lastFailed' = Note({cyc[c].opportunities[j] :
                               j \in cyc[c].i..Len(cyc[c].opportunities)}, lastFailed)
    /\ UNCHANGED <<ticks, env, hooks, clock, okPosts, lastAbort>>
    /\ UNCHANGED http
    /\ UNCHANGED <<fetched, recording>>

\* A delivery failure after which the cursor is written all the same.
PostFail_writesCursor(c) ==
    /\ cyc[c].pc = "post"
    /\ cyc' = [cyc EXCEPT ![c].pc = "threw", ![c].error = "delivery"]
    /\ cursors' = setCursor(cursors, CursorName, cyc[c].newestTimestamp)
    /\ UNCHANGED <<ticks, env, hooks, deliveries, clock, okPosts, dropped,
                   lastAbort, crashMarked>>
    /\ UNCHANGED http
    /\ UNCHANGED fetched
    /\ lastFailed' = Note({cyc[c].opportunities[j] :
                               j \in cyc[c].i..Len(cyc[c].opportunities)}, lastFailed)
    /\ UNCHANGED recording

\* axios.post rejects (unreachable, non-2xx, timeout): pollOpportunities throws.
PostFail(c) ==
    /\ cyc[c].pc = "post"
    /\ cyc' = [cyc EXCEPT ![c].pc = "threw", ![c].error = "delivery"]
    /\ UNCHANGED <<ticks, env, hooks, cursors, deliveries, clock, okPosts, dropped,
                   lastAbort, crashMarked>>
    /\ UNCHANGED http
    /\ UNCHANGED fetched
    /\ lastFailed' = Note({cyc[c].opportunities[j] :
                               j \in cyc[c].i..Len(cyc[c].opportunities)}, lastFailed)
    /\ UNCHANGED recording

\* The callback's await ends: the catch block logs the error, if any.
Settle(c) ==
    /\ cyc[c].pc \in {"returned", "threw"}
    /\ cyc' = [cyc EXCEPT ![c] = IdleCycle]
    /\ crashMarked' = IF cyc[c].pc = "returned" THEN {} ELSE crashMarked
    /\ UNCHANGED <<ticks, env, hooks, cursors, deliveries, clock, okPosts, dropped,
                   lastAbort>>
    /\ UNCHANGED http
    /\ UNCHANGED <<fetched, lastFailed, recording>>

(***************************************************************************)
(* POST /hooks/register.                                                   *)
(***************************************************************************)
JsonString(v) == [type |-> "string", value |-> v]
JsonNumber == [type |-> "number", value |-> "42"]

HookUrl == "https://a.example/hook"
WellFormedUrls == {HookUrl, "https://b.example/hook"}

RegisterBodies ==
    [event : {JsonString(EventName)}, url : {JsonString(HookUrl)}]
    \cup {[event |-> JsonNumber, url |-> JsonString(HookUrl)]}
    \cup {[event |-> JsonString(EventName), url |-> JsonString("not-a-url")]}

\* The same with a second URL, a second event and a url that is no string.
RegisterBodiesAll ==
    [event : {JsonString(EventName)}, url : {JsonString(u) : u \in WellFormedUrls}]
    \cup {[event |-> JsonString("other.event"), url |-> JsonString(HookUrl)],
          [event |-> JsonNumber, url |-> JsonString(HookUrl)],
          [event |-> JsonString(EventName), url |-> JsonString("not-a-url")],
          [event |-> JsonString(EventName), url |-> JsonNumber]}

\* A schema that takes any string for a URL.
SchemaAccepts_anyString(body) ==
    /\ body.event.type = "string"
    /\ body.url.type = "string"

\* z.object({event: z.string(), url: z.string().url()}).safeParse(body).success
SchemaAccepts(body) ==
    /\ body.event.type = "string"
    /\ body.url.type = "string"
    /\ body.url.value \in WellFormedUrls

\* res.status(400).json({error}) and res.json({ok: true}).
BadRequest == [status |-> 400, body |-> "error"]
Ok == [status |-> 200, body |-> "ok"]

\* The last accepted registration of each event, as the requests say it.
LastRegistration(rows, body) ==
    IF body.event.type = "string" /\ body.url.type = "string"
       /\ body.url.value \in WellFormedUrls
    THEN {r \in rows : r.event # body.event.value}
         \cup {[event |-> body.event.value, url |-> body.url.value]}
    ELSE rows

Register(body) ==
    /\ hooks' = IF SchemaAccepts(body)
                THEN setHook(hooks, body.event.value, body.url.value)
                ELSE hooks
    /\ response' = Note(IF SchemaAccepts(body) THEN Ok ELSE BadRequest, response)
    /\ registered' = LastRegistration(registered, body)
    /\ UNCHANGED <<ticks, env, cursors, deliveries, clock, cyc, okPosts, dropped,
                   lastAbort, crashMarked>>
    /\ UNCHANGED <<fetched, lastFailed, recording>>

(***************************************************************************)
(* GET /health.                                                            *)
(***************************************************************************)
Health ==
    /\ response' = Note(Ok, response)
    /\ UNCHANGED <<ticks, env, hooks, cursors, deliveries, clock, cyc, okPosts,
                   dropped, lastAbort, crashMarked, registered>>
    /\ UNCHANGED <<fetched, lastFailed, recording>>

(***************************************************************************)
(* The environment: time passes; the process is killed and started again,  *)
(* which loses every callback in flight and keeps state.db.                *)
(***************************************************************************)
ClockAdvance ==
    /\ clock < MaxClock
    /\ clock' = clock + 1
    /\ UNCHANGED <<ticks, env, hooks, cursors, deliveries, cyc, okPosts, dropped,
                   lastAbort, crashMarked>>
    /\ UNCHANGED http
    /\ UNCHANGED <<fetched, lastFailed, recording>>

\* Keys that cycle c has marked so far: its completed sink calls.
MarkedBy(c) ==
    LET sink == cyc[c].sink
        done == IF cyc[c].pc = "post" \/ cyc[c].error = "delivery"
                THEN Len(sink) - 1
                ELSE Len(sink)
    IN {sink[j].payload.idempotency_key : j \in 1..done}

Crash ==
    /\ crashMarked' =
          (IF \E c \in Slots : cyc[c].pc = "returned" THEN {} ELSE crashMarked)
          \cup UNION {MarkedBy(c) : c \in InFlight}
    /\ cyc' = [c \in Slots |-> IdleCycle]
    /\ UNCHANGED <<ticks, env, hooks, cursors, deliveries, clock, okPosts, dropped,
                   lastAbort>>
    /\ UNCHANGED http
    /\ UNCHANGED <<fetched, lastFailed, recording>>

Next ==
    \/ \E c \in Slots : Tick(c)
    \/ \E c \in Slots : GetFail(c)
    \/ \E c \in Slots, body \in Bodies : GetReturn(c, body)
    \/ \E c \in Slots : PostOk(c)
    \/ \E c \in Slots : PostFail(c)
    \/ \E c \in Slots : Settle(c)
    \/ \E body \in RegisterBodies : Register(body)
    \/ ClockAdvance
    \/ Crash

Spec == Init /\ [][Next]_vars

\* The same program when every cycle ends before the next tick fires.
TickSerial(c) == Running = {} /\ Tick(c)

NextSerial ==
    \/ \E c \in Slots : TickSerial(c)
    \/ \E c \in Slots : GetFail(c)
    \/ \E c \in Slots, body \in Bodies : GetReturn(c, body)
    \/ \E c \in Slots : PostOk(c)
    \/ \E c \in Slots : PostFail(c)
    \/ \E c \in Slots : Settle(c)
    \/ \E body \in RegisterBodies : Register(body)
    \/ ClockAdvance
    \/ Crash

SpecSerial == Init /\ [][NextSerial]_vars

(***************************************************************************)
(* The same program against an upstream that answers each request with     *)
(* every record it holds whose update is not older than updated_since,     *)
(* each once and in any order.                                             *)
(***************************************************************************)
\* The records the upstream holds under a timestamp.
Dataset == {o \in Catalogue : Truthy(UpdatedAt(o))}

Matching(updatedSinceISO) ==
    {o \in Dataset : ~StrGT(updatedSinceISO, UpdatedAt(o))}

AnswersTo(params) ==
    {b \in Batches :
        /\ \A o \in Matching(params.updated_since) : \E j \in 1..Len(b) : b[j] = o
        /\ \A j \in 1..Len(b) : b[j] \in Matching(params.updated_since)
        /\ \A j, k \in 1..Len(b) : j # k => b[j] # b[k]}

GetAnswer(c) ==
    \E kind \in {"opportunities", "data", "array"}, items \in AnswersTo(cyc[c].params) :
        GetReturn(c, [kind |-> kind, items |-> items])

NextAnswered ==
    \/ \E c \in Slots : TickSerial(c)
    \/ \E c \in Slots : GetFail(c)
    \/ \E c \in Slots : GetAnswer(c)
    \/ \E c \in Slots : PostOk(c)
    \/ \E c \in Slots : PostFail(c)
    \/ \E c \in Slots : Settle(c)
    \/ \E body \in RegisterBodies : Register(body)
    \/ ClockAdvance
    \/ Crash

\* A run that keeps every history.
InitRecorded == Start(TRUE)

SpecAnswered == InitRecorded /\ [][NextAnswered]_vars

(***************************************************************************)
(* The same for a process that stays up, with ticks that keep firing: the  *)
(* timer fires again once the callback has ended, a callback whose await   *)
(* has ended goes on, and the upstream and the destination, asked again    *)
(* and again, answer in the end.                                           *)
(***************************************************************************)
TickAgain(c) == Running = {} /\ Fire(c) /\ UNCHANGED ticks

NextLive ==
    \/ \E c \in Slots : TickAgain(c)
    \/ \E c \in Slots : GetFail(c)
    \/ \E c \in Slots : GetAnswer(c)
    \/ \E c \in Slots : PostOk(c)
    \/ \E c \in Slots : PostFail(c)
    \/ \E c \in Slots : Settle(c)
    \/ \E body \in RegisterBodies : Register(body)
    \/ ClockAdvance

Fairness ==
    /\ WF_vars(\E c \in Slots : TickAgain(c))
    /\ \A c \in Slots : WF_vars(Settle(c))
    /\ \A c \in Slots : SF_vars(GetAnswer(c))
    /\ \A c \in Slots : SF_vars(PostOk(c))

SpecLive == InitRecorded /\ [][NextLive]_vars /\ Fairness

(***************************************************************************)
(* The HTTP routes beside the poller, with every reply recorded.           *)
(***************************************************************************)
NextHttp ==
    \/ \E c \in Slots : TickSerial(c)
    \/ \E c \in Slots : GetFail(c)
    \/ \E c \in Slots : GetAnswer(c)
    \/ \E c \in Slots : PostOk(c)
    \/ \E c \in Slots : PostFail(c)
    \/ \E c \in Slots : Settle(c)
    \/ \E body \in RegisterBodiesAll : Register(body)
    \/ Health
    \/ ClockAdvance

SpecHttp == InitRecorded /\ [][NextHttp]_vars

(***************************************************************************)
(* Vocabulary of the properties.                                           *)
(***************************************************************************)
LedgerKeys == Keys(deliveries)

\* The calls of postToZapier that cycle c has seen return.
Done(c) ==
    IF cyc[c].pc = "post" \/ cyc[c].error = "delivery"
    THEN Len(cyc[c].sink) - 1
    ELSE Len(cyc[c].sink)

SinkKey(c, j) == cyc[c].sink[j].payload.idempotency_key

\* The timestamp a record carries under one of its three names, if any.
Stamp(opp) ==
    IF opp.updated_at # <<>> THEN opp.updated_at
    ELSE IF opp.updatedAt # <<>> THEN opp.updatedAt ELSE opp.updated

\* The key of a record processed at wall-clock minute t.
KeyAt(opp, t) ==
    <<"opportunity", opp.id, IF Stamp(opp) # <<>> THEN Stamp(opp) ELSE ISO(t)>>

KeysOf(opp) == {KeyAt(opp, t) : t \in StartClock..MaxClock}

\* Sink invocations for key k that have returned without error.
Completed(k) == CopiesIn(k, okPosts) + (IF k \in dropped THEN 1 ELSE 0)

\* The batch of cycle c is of records not seen before, no two alike.
Fresh(c) ==
    LET opps == cyc[c].opportunities
    IN /\ \A a, b \in 1..Len(opps) :
            a # b => <<opps[a].id, Stamp(opps[a])>> # <<opps[b].id, Stamp(opps[b])>>
       /\ \A j \in 1..Len(opps) : KeysOf(opps[j]) \cap Keys(cyc[c].startLedger) = {}

(***************************************************************************)
(* C1.  Idempotency: a record (id, resolved timestamp) that one cycle has   *)
(* delivered and marked is a no-op for every later cycle: the later cycle  *)
(* makes no sink invocation for its key and leaves the ledger rows it      *)
(* found as they are, so a key in the ledger has exactly one completed     *)
(* sink invocation.  Cycles run one after the other.                       *)
(***************************************************************************)
C1_Idempotent ==
    /\ \A k \in LedgerKeys : Completed(k) = 1
    /\ \A c \in Slots :
         /\ \A j \in 1..Len(cyc[c].sink) : SinkKey(c, j) \notin Keys(cyc[c].startLedger)
         /\ cyc[c].startLedger \subseteq deliveries

\* A later cycle has run to its end over a batch holding a record whose
\* key an earlier cycle posted and marked.
C1_Witness ==
    \E c \in Slots :
      /\ cyc[c].pc = "returned"
      /\ \E j \in 1..Len(cyc[c].opportunities) :
           LET opp == cyc[c].opportunities[j]
           IN /\ Stamp(opp) # <<>>
              /\ KeyAt(opp, clock) \in Keys(cyc[c].startLedger)
              /\ CopiesIn(KeyAt(opp, clock), okPosts) = 1

(***************************************************************************)
(* C2.  At most once per key: with no process termination, no idempotency  *)
(* key has more than one outbound POST that completes successfully.        *)
(***************************************************************************)
C2_AtMostOncePerKey ==
    crashMarked = {} => \A k \in BagToSet(okPosts) : CopiesIn(k, okPosts) <= 1

(***************************************************************************)
(* C3.  Cycles are serialized: at most one invocation of pollOpportunities *)
(* is awaiting the upstream GET or an outbound POST at any moment.         *)
(***************************************************************************)
C3_Serialized == Cardinality(InFlight) <= 1

(***************************************************************************)
(* C4.  Cursor monotonicity: when a cycle with a non-empty result writes   *)
(* the cursor, the value it writes is not smaller, as a string, than the   *)
(* value stored before.                                                    *)
(***************************************************************************)
C4_CursorMonotone ==
    [][\A c \in Slots :
         (/\ cyc[c].pc # "returned"
          /\ cyc'[c].pc = "returned"
          /\ Len(cyc'[c].opportunities) > 0)
         => \A old \in cursors, new \in cursors' :
              old.name = new.name => ~StrGT(old.cursor, new.cursor)]_vars

(***************************************************************************)
(* C5.  Crash safety: once the process has terminated after a cycle marked *)
(* a key and before that cycle wrote the cursor, no cycle that starts from *)
(* the cursor as it stood makes an outbound call for that key.             *)
(***************************************************************************)
C5_CrashSafe ==
    \A c \in Slots : \A j \in 1..Len(cyc[c].sink) :
        cyc[c].sink[j].outbound => SinkKey(c, j) \notin crashMarked

\* After the restart a cycle has fetched such a record again, has gone
\* past it and has sent a later record of the batch.
C5_Witness ==
    \E c \in Slots :
      /\ cyc[c].pc = "post"
      /\ \E j \in 1..(cyc[c].i - 1) :
           /\ Stamp(cyc[c].opportunities[j]) # <<>>
           /\ KeyAt(cyc[c].opportunities[j], clock) \in crashMarked

(***************************************************************************)
(* C6.  Partial-cycle retry: when the outbound call for record rk of a     *)
(* batch r1..rn of unseen records fails, the cycle has invoked the sink    *)
(* once for each of r1..rk and for no later record, the ledger has gained  *)
(* exactly the keys of r1..r(k-1), the keys of rk..rn are absent from it,  *)
(* and the cursor is as the cycle found it.  Cycles run one after the      *)
(* other.                                                                  *)
(***************************************************************************)
C6_PartialCycle ==
    \A c \in Slots :
      (cyc[c].pc = "threw" /\ cyc[c].error = "delivery" /\ Fresh(c)) =>
        LET opps == cyc[c].opportunities
            k == cyc[c].i
        IN /\ Len(cyc[c].sink) = k
           /\ \A j \in 1..k : /\ cyc[c].sink[j].payload.data = opps[j]
                              /\ SinkKey(c, j) \in KeysOf(opps[j])
           /\ LedgerKeys = Keys(cyc[c].startLedger) \cup {SinkKey(c, j) : j \in 1..(k - 1)}
           /\ SinkKey(c, k) \notin LedgerKeys
           /\ \A j \in (k + 1)..Len(opps) : KeysOf(opps[j]) \cap LedgerKeys = {}
           /\ cursors = cyc[c].startCursor

\* The second of two unseen records failed after the first was marked.
C6_Witness ==
    \E c \in Slots :
      /\ cyc[c].pc = "threw" /\ cyc[c].error = "delivery" /\ Fresh(c)
      /\ cyc[c].i = 2
      /\ SinkKey(c, 1) \in LedgerKeys
      /\ StrGT(cyc[c].newestTimestamp, cyc[c].since)

(***************************************************************************)
(* C7.  No-subscriber safety: a record processed while no URL is           *)
(* registered for "opportunity.updated" causes no outbound call and has    *)
(* its key inserted into the ledger, and no cycle ever makes an outbound   *)
(* call for that key, also after a URL has been registered.                *)
(***************************************************************************)
C7_NoSubscriber ==
    \A c \in Slots : \A j \in 1..Len(cyc[c].sink) :
      /\ ~cyc[c].sink[j].registered =>
            /\ ~cyc[c].sink[j].outbound
            /\ j <= Done(c)
            /\ SinkKey(c, j) \in LedgerKeys
      /\ cyc[c].sink[j].outbound => SinkKey(c, j) \notin dropped

\* With a URL registered, a cycle has sent its first record and has gone
\* past a second one whose key was dropped for want of a subscriber.
C7_Witness ==
    \E c \in Slots :
      /\ cyc[c].pc = "returned"
      /\ Len(cyc[c].opportunities) = 2
      /\ Len(cyc[c].sink) = 1
      /\ cyc[c].sink[1].outbound
      /\ cyc[c].sink[1].payload.data = cyc[c].opportunities[1]
      /\ KeysOf(cyc[c].opportunities[2]) \cap dropped # {}
      /\ Stamp(cyc[c].opportunities[2]) # <<>>

(***************************************************************************)
(* C8.  A failed upstream fetch leaves the state untouched: a cycle whose  *)
(* GET was rejected or answered with a malformed body makes no outbound    *)
(* call, marks no key and does not write the cursor.                       *)
(***************************************************************************)
C8_FetchErrorLeavesState ==
    \A c \in Slots :
      cyc[c].fetch \in {"rejected", "malformed"} =>
        /\ \A j \in 1..Len(cyc[c].sink) : ~cyc[c].sink[j].outbound
        /\ MarkedBy(c) = {}
        /\ cyc[c].pc # "returned"

(***************************************************************************)
(* C9.  Retry from the same cursor.  As claimed: the cycle that follows a  *)
(* cycle aborted by a fetch error sends the changed-since value that the   *)
(* aborted cycle sent, whether that value came from a cursor row or from   *)
(* the fallback (the cursors table being as the aborted cycle read it).    *)
(***************************************************************************)
C9_SameSinceAlways ==
    \A c \in Slots : \A a \in cyc[c].retryOf :
      cyc[c].startCursor = a.row => cyc[c].params.updated_since = a.since

(***************************************************************************)
(* C9, amended.  The cycle that follows a cycle aborted by a fetch error   *)
(* sends the same changed-since value when a cursor row is persisted and   *)
(* holds what the aborted cycle read; with no row persisted it sends the   *)
(* fallback computed afresh, five minutes before its own start, which is   *)
(* never earlier than the aborted cycle's.                                 *)
(***************************************************************************)
C9_SameSinceFromRow ==
    \A c \in Slots : \A a \in cyc[c].retryOf :
      cyc[c].startCursor = a.row =>
        IF a.row # {}
        THEN cyc[c].params.updated_since = a.since
        ELSE /\ cyc[c].params.updated_since
                  \in {ISO(t - FallbackMinutes) : t \in StartClock..clock}
             /\ ~StrGT(a.since, cyc[c].params.updated_since)

\* A cycle awaits its GET after an aborted one, the cursor row in place.
C9_Witness ==
    \E c \in Slots : \E a \in cyc[c].retryOf :
      /\ cyc[c].pc = "get"
      /\ a.row # {}
      /\ cyc[c].startCursor = a.row

(***************************************************************************)
(* C10.  A successful cycle end to end: from cursor T0, over records       *)
(* r1..rn with distinct (id, updated_at), all updated_at > T0, none in    *)
(* the ledger, a URL registered and every delivery succeeding, the cycle   *)
(* makes exactly n outbound calls in the order of the batch, the j-th with *)
(* occurred_at = rj.updated_at and idempotency_key                         *)
(* "opportunity:<id>:<updated_at>", the ledger gains exactly those n keys  *)
(* and the cursor is the greatest updated_at of the batch.  Cycles run one *)
(* after the other.                                                        *)
(***************************************************************************)
C10_Pre(c) ==
    LET opps == cyc[c].opportunities
    IN /\ cyc[c].pc = "returned"
       /\ Len(opps) >= 1
       /\ \A j \in 1..Len(opps) :
            /\ opps[j].updated_at # <<>>
            /\ StrGT(opps[j].updated_at, cyc[c].since)
            /\ <<"opportunity", opps[j].id, opps[j].updated_at>>
                 \notin Keys(cyc[c].startLedger)
       /\ \A a, b \in 1..Len(opps) :
            a # b => <<opps[a].id, opps[a].updated_at>> # <<opps[b].id, opps[b].updated_at>>
       /\ \A j \in 1..Len(cyc[c].sink) : cyc[c].sink[j].registered

C10_EndToEnd ==
    \A c \in Slots :
      C10_Pre(c) =>
        LET opps == cyc[c].opportunities
            n == Len(opps)
            key(j) == <<"opportunity", opps[j].id, opps[j].updated_at>>
        IN /\ Len(cyc[c].sink) = n
           /\ \A j \in 1..n :
                /\ cyc[c].sink[j].outbound
                /\ cyc[c].sink[j].payload.occurred_at = opps[j].updated_at
                /\ cyc[c].sink[j].payload.idempotency_key = key(j)
                /\ cyc[c].sink[j].payload.data = opps[j]
           /\ LedgerKeys = Keys(cyc[c].startLedger) \cup {key(j) : j \in 1..n}
           /\ Cardinality(LedgerKeys) = Cardinality(cyc[c].startLedger) + n
           /\ \E m \in 1..n :
                /\ \A j \in 1..n : ~StrGT(opps[j].updated_at, opps[m].updated_at)
                /\ cursors = {[name |-> "opportunities.updated_at",
                               cursor |-> opps[m].updated_at]}

\* Such a cycle over two records, the later one last.
C10_Witness ==
    \E c \in Slots :
      /\ C10_Pre(c)
      /\ Len(cyc[c].opportunities) = 2
      /\ StrGT(cyc[c].opportunities[2].updated_at, cyc[c].opportunities[1].updated_at)

(***************************************************************************)
(* C11.  Registration validation: a POST /hooks/register whose body fails  *)
(* validation (event not a string, or url not a valid URL) is answered     *)
(* with status 400 and leaves the hooks table exactly as it was; a valid   *)
(* body sets the row of its event to its url, leaves the other rows alone  *)
(* and is answered with success.                                           *)
(***************************************************************************)
C11_Valid(body) ==
    /\ body.event.type = "string"
    /\ body.url.type = "string"
    /\ body.url.value \in WellFormedUrls

C11_RegistrationValidated ==
    [][\A body \in RegisterBodiesAll :
          Register(body) =>
            IF C11_Valid(body)
            THEN /\ response'.status = 200
                 /\ [event |-> body.event.value, url |-> body.url.value] \in hooks'
                 /\ \A r \in hooks' : r.event = body.event.value => r.url = body.url.value
                 /\ {r \in hooks' : r.event # body.event.value}
                      = {r \in hooks : r.event # body.event.value}
            ELSE /\ response'.status = 400
                 /\ hooks' = hooks]_vars

\* A request was refused after a registration, and the row is still there.
C11_Witness ==
    /\ response = BadRequest
    /\ hooks = {[event |-> EventName, url |-> HookUrl]}

(***************************************************************************)
(* C12.  The deliveries table is a write-once set: no step removes a row   *)
(* or changes its delivered_at, a key has one row, and markDelivered on a  *)
(* key already present changes nothing, so that a key only ever goes from  *)
(* unseen to delivered.                                                    *)
(***************************************************************************)
C12_WriteOnce ==
    [][/\ deliveries \subseteq deliveries'
       /\ \A r, q \in deliveries' :
             r.idempotency_key = q.idempotency_key => r = q]_vars

\* A key sent by two cycles: the second markDelivered, a minute after the
\* first, found the key present and left delivered_at at its first value.
C12_Witness ==
    \E r \in deliveries :
      /\ CopiesIn(r.idempotency_key, okPosts) = 2
      /\ r.delivered_at = ISO(StartClock)
      /\ clock > StartClock

C14_Ended(c) == cyc[c].pc \in {"returned", "threw"} /\ cyc[c].fetch = "ok"

C14_Invoked(c, o) ==
    \/ KeyAt(o, clock) \in Keys(cyc[c].startLedger)
    \/ \E n \in 1..Len(cyc[c].sink) : cyc[c].sink[n].payload.data = o

C14_ReattemptedInOrder ==
    \A c \in Slots :
      C14_Ended(c) =>
        \A o \in cyc[c].retried :
          \E j \in 1..Len(cyc[c].opportunities) :
            /\ cyc[c].opportunities[j] = o
            /\ (cyc[c].pc = "returned" \/ j <= cyc[c].i) => C14_Invoked(c, o)

C15_MarkedAfterSuccess ==
    /\ \A k \in LedgerKeys : Completed(k) >= 1
    /\ \A c \in Slots :
          (cyc[c].pc = "post" \/ cyc[c].error = "delivery") =>
            SinkKey(c, Len(cyc[c].sink)) \notin LedgerKeys

\* A cycle marked one record after its POST and threw at the next.
C15_Witness ==
    \E c \in Slots :
      /\ cyc[c].error = "delivery"
      /\ Len(cyc[c].sink) = 2
      /\ CopiesIn(SinkKey(c, 1), okPosts) = 1
      /\ SinkKey(c, 1) \in LedgerKeys
      /\ SinkKey(c, 2) \notin LedgerKeys

(***************************************************************************)
(* C16.  Deliveries are synchronous and in the order of the upstream       *)
(* response: within a cycle the sink invocations follow the order of the   *)
(* batch, the invocation for a record starts only when the one before it   *)
(* has completed and its key is marked, and at most one outbound call is   *)
(* in flight at any time.                                                  *)
(***************************************************************************)
C16_InOrder ==
    /\ \A c \in Slots :
          LET sink == cyc[c].sink
              opps == cyc[c].opportunities
          IN /\ \E f \in [1..Len(sink) -> 1..Len(opps)] :
                   /\ \A n \in 1..Len(sink) : sink[n].payload.data = opps[f[n]]
                   /\ \A n, m \in 1..Len(sink) : n < m => f[n] < f[m]
                   /\ cyc[c].pc = "post" => f[Len(sink)] = cyc[c].i
             /\ \A n \in 1..Len(sink) - 1 : SinkKey(c, n) \in LedgerKeys
    /\ Cardinality({c \in Slots : cyc[c].pc = "post"}) <= 1

(***************************************************************************)
(* C17.  The cursor at the end of a cycle.  As stated: when the loop       *)
(* completes without throwing, the value persisted by setCursor is the     *)
(* maximum of the cycle's starting cursor and the resolved timestamps      *)
(* (occurred_at) of all records of the batch, the wall-clock time that a   *)
(* record without a timestamp field was resolved to included.              *)
(***************************************************************************)
\* The greatest of a set of strings, as JavaScript compares them.
C17_Max(S) == CHOOSE m \in S : \A x \in S : ~StrGT(x, m)

C17_CursorIsMaxOfResolved ==
    \A c \in Slots :
      cyc[c].pc = "returned" =>
        LET opps == cyc[c].opportunities
        IN \E at \in [1..Len(opps) -> StartClock..clock] :
             cursors = {[name |-> CursorName,
                         cursor |-> C17_Max({cyc[c].since} \cup
                                      {KeyAt(opps[j], at[j])[3] : j \in 1..Len(opps)})]}

(***************************************************************************)
(* C17, amended.  When the loop completes without throwing, the value      *)
(* persisted by setCursor is the maximum of the cycle's starting cursor    *)
(* and the update timestamps of the records of the batch that carry one;   *)
(* a record without a timestamp field, whose occurred_at is the wall-clock *)
(* time, does not move the cursor.                                         *)
(***************************************************************************)
C17_CursorIsMaxOfStamps ==
    \A c \in Slots :
      cyc[c].pc = "returned" =>
        LET opps == cyc[c].opportunities
        IN cursors = {[name |-> CursorName,
                       cursor |-> C17_Max({cyc[c].since} \cup
                                    {Stamp(opps[j]) :
                                       j \in {n \in 1..Len(opps) : Stamp(opps[n]) # <<>>}})]}

\* A completed cycle over a record with a later timestamp and a record with
\* none, sent under the wall-clock time, which is later than the cursor.
C17_Witness ==
    \E c \in Slots :
      /\ cyc[c].pc = "returned"
      /\ \E r \in cursors : StrGT(r.cursor, cyc[c].since)
      /\ \E n \in 1..Len(cyc[c].sink), r \in cursors :
            /\ Stamp(cyc[c].sink[n].payload.data) = <<>>
            /\ StrGT(cyc[c].sink[n].payload.occurred_at, r.cursor)

(***************************************************************************)
(* C18.  A configuration error is isolated: while a credential is missing  *)
(* every cycle aborts in currentClient, before any upstream request and    *)
(* any outbound call, and changes neither the cursors nor the ledger; the  *)
(* error ends in the callback, and the registrations made meanwhile are    *)
(* all in the hooks table and every request is answered.                   *)
(***************************************************************************)
C18_Missing == ~env.CURRENT_SUBDOMAIN \/ ~env.CURRENT_API_KEY

C18_ConfigErrorIsolated ==
    C18_Missing =>
      /\ \A c \in Slots :
            /\ cyc[c].pc \in {"idle", "threw"}
            /\ cyc[c].pc = "threw" => cyc[c].error = "config"
            /\ cyc[c].fetch = "none"
            /\ cyc[c].sink = <<>>
      /\ fetched = {}
      /\ okPosts = EmptyBag /\ dropped = {}
      /\ deliveries = {}
      /\ cursors \in {{}, PriorRun}
      /\ hooks = registered
      /\ response \in {NoResponse, Ok, BadRequest}

\* The second cycle has thrown for want of a credential, with a registration
\* made and answered meanwhile.
C18_Witness ==
    /\ C18_Missing
    /\ ticks > 1
    /\ \E c \in Slots : cyc[c].pc = "threw" /\ cyc[c].error = "config"
    /\ hooks = {[event |-> EventName, url |-> HookUrl]}
    /\ response = Ok

(***************************************************************************)
(* C19.  The poller and the registration route share the hooks table and   *)
(* nothing else: a step that registers changes no cursor and no ledger     *)
(* row, a step of a cycle does not write hooks, and however registrations  *)
(* interleave with a running cycle the hooks table holds one row for each  *)
(* registered event, with the URL of the last registration of that event.  *)
(***************************************************************************)
C19_LastWriteWins ==
    /\ hooks = registered
    /\ \A r, q \in hooks : r.event = q.event => r = q

C19_Frame ==
    /\ (hooks' # hooks \/ registered' # registered \/ response' # response)
         => (cursors' = cursors /\ deliveries' = deliveries /\ cyc' = cyc)
    /\ (cyc' # cyc \/ cursors' # cursors \/ deliveries' # deliveries)
         => (hooks' = hooks)

C19_SharesOnlyHooks == []C19_LastWriteWins /\ [][C19_Frame]_vars

\* While a POST is in flight the event's URL has been registered over, and
\* a second event registered beside it.
C19_Witness ==
    /\ \E c \in Slots : cyc[c].pc = "post"
    /\ deliveries # {}
    /\ hooks = {[event |-> EventName, url |-> u] : u \in WellFormedUrls \ {HookUrl}}
               \cup {[event |-> "other.event", url |-> HookUrl]}

(***************************************************************************)
(* C20.  Records already delivered still advance the cursor: a cycle whose *)
(* fetched records all have their key in the ledger makes no sink          *)
(* invocation and no insert, and persists as cursor the maximum of its     *)
(* starting cursor and the records' update timestamps; on an empty result  *)
(* it persists its starting value, which on the first cycle is the         *)
(* default of five minutes before.                                         *)
(***************************************************************************)
C20_AllDelivered(c) ==
    /\ cyc[c].pc = "returned"
    /\ \A j \in 1..Len(cyc[c].opportunities), t \in StartClock..clock :
          KeyAt(cyc[c].opportunities[j], t) \in Keys(cyc[c].startLedger)

C20_DeliveredStillAdvance ==
    \A c \in Slots :
      C20_AllDelivered(c) =>
        LET opps == cyc[c].opportunities
            stamps == {Stamp(opps[j]) : j \in {n \in 1..Len(opps) : Stamp(opps[n]) # <<>>}}
        IN /\ cyc[c].sink = <<>>
           /\ deliveries = cyc[c].startLedger
           /\ \E m \in {cyc[c].since} \cup stamps :
                /\ \A x \in stamps : ~StrGT(x, m)
                /\ ~StrGT(cyc[c].since, m)
                /\ cursors = {[name |-> CursorName, cursor |-> m]}
           /\ opps = <<>> =>
                /\ cursors = {[name |-> CursorName, cursor |-> cyc[c].since]}
                /\ cyc[c].startCursor = {} =>
                      \E t \in StartClock..clock : cyc[c].since = FallbackISO(t)

\* A completed cycle over a record delivered before, whose timestamp is
\* later than the cursor the cycle started from.
C20_Witness ==
    \E c \in Slots :
      /\ C20_AllDelivered(c)
      /\ cyc[c].opportunities # <<>>
      /\ \E r \in cursors : StrGT(r.cursor, cyc[c].since)

====
